---- MODULE Spec2Model ----
(***************************************************************************)
(* A model of mcp_server/src/agents/run_smolagents.py: a script that       *)
(* imports CodeAgent from smolagents, constructs it with tools=[], runs it *)
(* on one fixed task and prints the result; `except Exception` around the  *)
(* construction, the run and the print turns a failure into one printed    *)
(* line.                                                                   *)
(*                                                                         *)
(* The library and the interpreter's print are the environment: every call *)
(* either returns or raises an exception of some class, with some textual  *)
(* description.  A print is taken to be atomic: it writes its whole text   *)
(* (with the line terminator) or raises having written nothing.            *)
(*                                                                         *)
(* The state is indexed by an execution of the script, so that statements  *)
(* that compare two executions can be written.  Spec runs the execution    *)
(* Main alone; PairSpec runs two executions side by side.                  *)
(***************************************************************************)
EXTENDS Integers, Sequences, FiniteSets, TLC

\* Longest textual description (of an exception, of a str result) considered.
MaxLen == 1

Runs == {1, 2}
Main == 1

Letter == "a"

RECURSIVE Texts(_)
Texts(n) ==
    IF n = 0 THEN {""}
    ELSE Texts(n - 1) \cup {t \o Letter : t \in Texts(n - 1)}

Messages == Texts(MaxLen)

(***************************************************************************)
(* Exceptions.  IsException is the class test `except Exception` makes:    *)
(* ValueError and ImportError derive from Exception, KeyboardInterrupt and *)
(* SystemExit derive from BaseException only.  msg is str(e).              *)
(***************************************************************************)
Kinds == {"ValueError", "ImportError", "KeyboardInterrupt", "SystemExit"}

IsException(kind) == kind \in {"ValueError", "ImportError"}

Exceptions == [kind : Kinds, msg : Messages]

NoExc == [kind |-> "", msg |-> ""]

(***************************************************************************)
(* Values agent.run may return, and str() of them, which print applies.    *)
(***************************************************************************)
NoValue == [type |-> "unbound", text |-> "", num |-> 0]

PyValues ==
    [type : {"str"}, text : Messages, num : {0}]
        \cup [type : {"int"}, text : {""}, num : {0, 47}]
        \cup {[type |-> "NoneType", text |-> "", num |-> 0]}

Digit(d) ==
    CASE d = 0 -> "0" [] d = 1 -> "1" [] d = 2 -> "2" [] d = 3 -> "3"
      [] d = 4 -> "4" [] d = 5 -> "5" [] d = 6 -> "6" [] d = 7 -> "7"
      [] d = 8 -> "8" [] d = 9 -> "9"

RECURSIVE Decimal(_)
Decimal(n) == IF n < 10 THEN Digit(n) ELSE Decimal(n \div 10) \o Digit(n % 10)

Str(v) ==
    CASE v.type = "str" -> v.text
      [] v.type = "int" -> Decimal(v.num)
      [] v.type = "NoneType" -> "None"

VARIABLES
    pc,       \* pc[r]: the statement execution r is at, or "exited"
    agent,    \* agent[r]: whether the name agent is bound
    result,   \* result[r]: the value bound to result, or NoValue
    e,        \* e[r]: the exception bound by `except Exception as e`, or NoExc
    stdout,   \* stdout[r]: what was printed, one entry per completed print
    exit,     \* exit[r]: how the process ended and its exit status
    calls,    \* calls[r]: the calls made into the library, with their outcome
    raised    \* raised[r]: every exception raised so far, with its origin

vars == <<pc, agent, result, e, stdout, exit, calls, raised>>

Running == [how |-> "running", status |-> 0]

Init ==
    /\ pc = [r \in Runs |-> "import"]
    /\ agent = [r \in Runs |-> FALSE]
    /\ result = [r \in Runs |-> NoValue]
    /\ e = [r \in Runs |-> NoExc]
    /\ stdout = [r \in Runs |-> <<>>]
    /\ exit = [r \in Runs |-> Running]
    /\ calls = [r \in Runs |-> <<>>]
    /\ raised = [r \in Runs |-> <<>>]

(***************************************************************************)
(* The end of the process.  Falling off the end of the module exits with   *)
(* status 0.  An exception that leaves the module ends the interpreter:    *)
(* SystemExit exits silently with status 0 when it carries no code and     *)
(* writes its text to stderr with status 1 otherwise; KeyboardInterrupt    *)
(* prints a traceback and ends the process by SIGINT (130); any other      *)
(* exception prints a traceback to stderr with status 1.                   *)
(***************************************************************************)
NormalExit == [how |-> "normal", status |-> 0]

Uncaught(x) ==
    CASE x.kind = "SystemExit" ->
            [how |-> "systemexit", status |-> IF x.msg = "" THEN 0 ELSE 1]
      [] x.kind = "KeyboardInterrupt" -> [how |-> "traceback", status |-> 130]
      [] OTHER -> [how |-> "traceback", status |-> 1]

\* (mutant) except ValueError as e: a narrower clause.
CatchesValueErrorOnly(x) == x.kind = "ValueError"

\* except Exception as e: the clause matches instances of Exception only.
Catches(x) == IsException(x.kind)

\* x is raised at statement `at`, outside the try statement or in its handler:
\* nothing catches it.
Propagate(r, at, x) ==
    /\ raised' = [raised EXCEPT ![r] = Append(@, [at |-> at, kind |-> x.kind, msg |-> x.msg])]
    /\ pc' = [pc EXCEPT ![r] = "exited"]
    /\ exit' = [exit EXCEPT ![r] = Uncaught(x)]

\* (mutant) the statements are not inside a try statement.
RaiseUnguarded(r, at, x) == Propagate(r, at, x) /\ e' = e

\* x is raised at statement `at` in the body of the try statement.
RaiseInTry(r, at, x) ==
    /\ raised' = [raised EXCEPT ![r] = Append(@, [at |-> at, kind |-> x.kind, msg |-> x.msg])]
    /\ IF Catches(x)
       THEN /\ pc' = [pc EXCEPT ![r] = "except"]
            /\ e' = [e EXCEPT ![r] = x]
            /\ exit' = exit
       ELSE /\ pc' = [pc EXCEPT ![r] = "exited"]
            /\ e' = e
            /\ exit' = [exit EXCEPT ![r] = Uncaught(x)]

\* A call into the library as the script writes it.
Call(op, positional, keywords, outcome) ==
    [op |-> op, positional |-> positional, keywords |-> keywords, outcome |-> outcome]

Tools == <<>>

\* (mutant) another wording of the task.
TaskReworded == "What is the 15th prime?"

Task == "What is the 15th prime number?"

\* One completed print: the statement that made it and the text written.
Written(stmt, text) == [stmt |-> stmt, text |-> text]

\* (mutant) print(repr(result)): a str result is written in quotes.
ResultLineRepr(v) == IF v.type = "str" THEN "'" \o v.text \o "'\n" ELSE Str(v) \o "\n"

\* print(result)
ResultLine(v) == Str(v) \o "\n"

\* (mutant) another wording of the prefix.
ErrorLineReworded(x) == "Error running agent: " \o x.msg \o "\n"

\* (mutant) {e!r} in place of {e}: the class is written with the description.
ErrorLineRepr(x) == "Error running CodeAgent: " \o x.kind \o "('" \o x.msg \o "')\n"

\* print(f"Error running CodeAgent: {e}")
ErrorLine(x) == "Error running CodeAgent: " \o x.msg \o "\n"

\* from smolagents import CodeAgent
Import(r) ==
    /\ pc[r] = "import"
    /\ \/ /\ pc' = [pc EXCEPT ![r] = "construct"]
          /\ UNCHANGED <<exit, raised>>
       \/ \E x \in Exceptions : Propagate(r, "import", x)
    /\ UNCHANGED <<agent, result, e, stdout, calls>>

\* (mutant) a failure of the constructor is passed over and the script goes on
\* to the run.
ConstructPassingOver(r) ==
    /\ pc[r] = "construct"
    /\ \E o \in {"ok", "raise"} :
          calls' = [calls EXCEPT ![r] =
                       Append(@, Call("CodeAgent", <<>>, {<<"tools", Tools>>}, o))]
    /\ agent' = [agent EXCEPT ![r] = TRUE]
    /\ pc' = [pc EXCEPT ![r] = "run"]
    /\ UNCHANGED <<result, stdout, e, exit, raised>>

\* agent = CodeAgent(tools=[])
Construct(r) ==
    /\ pc[r] = "construct"
    /\ \/ /\ calls' = [calls EXCEPT ![r] =
                          Append(@, Call("CodeAgent", <<>>, {<<"tools", Tools>>}, "ok"))]
          /\ agent' = [agent EXCEPT ![r] = TRUE]
          /\ pc' = [pc EXCEPT ![r] = "run"]
          /\ UNCHANGED <<e, exit, raised>>
       \/ \E x \in Exceptions :
             /\ calls' = [calls EXCEPT ![r] =
                             Append(@, Call("CodeAgent", <<>>, {<<"tools", Tools>>}, "raise"))]
             /\ agent' = agent
             /\ RaiseInTry(r, "construct", x)
    /\ UNCHANGED <<result, stdout>>

\* result = agent.run("What is the 15th prime number?")
Run(r) ==
    /\ pc[r] = "run"
    /\ agent[r]
    /\ \/ \E v \in PyValues :
             /\ calls' = [calls EXCEPT ![r] = Append(@, Call("run", <<Task>>, {}, "ok"))]
             /\ result' = [result EXCEPT ![r] = v]
             /\ pc' = [pc EXCEPT ![r] = "print"]
             /\ UNCHANGED <<e, exit, raised>>
       \/ \E x \in Exceptions :
             /\ calls' = [calls EXCEPT ![r] = Append(@, Call("run", <<Task>>, {}, "raise"))]
             /\ result' = result
             /\ RaiseInTry(r, "run", x)
    /\ UNCHANGED <<agent, stdout>>

\* (mutant) print(result) stands after the try statement, outside it.
PrintResultUnguarded(r) ==
    /\ pc[r] = "print"
    /\ \/ /\ stdout' = [stdout EXCEPT ![r] =
                           Append(@, Written("print(result)", ResultLine(result[r])))]
          /\ pc' = [pc EXCEPT ![r] = "exited"]
          /\ exit' = [exit EXCEPT ![r] = NormalExit]
          /\ UNCHANGED <<e, raised>>
       \/ \E x \in Exceptions :
             /\ stdout' = stdout
             /\ e' = e
             /\ Propagate(r, "print", x)
    /\ UNCHANGED <<agent, result, calls>>

\* (mutant) the result is printed a second time after the try statement.
PrintResultTwice(r) ==
    /\ pc[r] = "print"
    /\ \/ /\ stdout' = [stdout EXCEPT ![r] =
                           @ \o << Written("print(result)", ResultLine(result[r])),
                                   Written("print(result)", ResultLine(result[r])) >>]
          /\ pc' = [pc EXCEPT ![r] = "exited"]
          /\ exit' = [exit EXCEPT ![r] = NormalExit]
          /\ UNCHANGED <<e, raised>>
       \/ \E x \in Exceptions :
             /\ stdout' = stdout
             /\ RaiseInTry(r, "print", x)
    /\ UNCHANGED <<agent, result, calls>>

\* print(result), the last statement of the try body: after it the module
\* ends and the process exits.
PrintResult(r) ==
    /\ pc[r] = "print"
    /\ \/ /\ stdout' = [stdout EXCEPT ![r] =
                           Append(@, Written("print(result)", ResultLine(result[r])))]
          /\ pc' = [pc EXCEPT ![r] = "exited"]
          /\ exit' = [exit EXCEPT ![r] = NormalExit]
          /\ UNCHANGED <<e, raised>>
       \/ \E x \in Exceptions :
             /\ stdout' = stdout
             /\ RaiseInTry(r, "print", x)
    /\ UNCHANGED <<agent, result, calls>>

\* (mutant) the handler tries again from the construction instead of reporting,
\* giving up after three calls.
HandlerRetrying(r) ==
    /\ pc[r] = "except"
    /\ IF Len(calls[r]) < 3
       THEN /\ pc' = [pc EXCEPT ![r] = "construct"]
            /\ exit' = exit
       ELSE /\ pc' = [pc EXCEPT ![r] = "exited"]
            /\ exit' = [exit EXCEPT ![r] = NormalExit]
    /\ e' = [e EXCEPT ![r] = NoExc]
    /\ UNCHANGED <<agent, result, calls, stdout, raised>>

\* except Exception as e: print(f"Error running CodeAgent: {e}"); the name e
\* is unbound when the clause ends, and the module ends after it.
Handler(r) ==
    /\ pc[r] = "except"
    /\ \/ /\ stdout' = [stdout EXCEPT ![r] =
                           Append(@, Written("print(error)", ErrorLine(e[r])))]
          /\ pc' = [pc EXCEPT ![r] = "exited"]
          /\ exit' = [exit EXCEPT ![r] = NormalExit]
          /\ raised' = raised
       \/ \E x \in Exceptions :
             /\ stdout' = stdout
             /\ Propagate(r, "except", x)
    /\ e' = [e EXCEPT ![r] = NoExc]
    /\ UNCHANGED <<agent, result, calls>>

Step(r) ==
    \/ Import(r)
    \/ Construct(r)
    \/ Run(r)
    \/ PrintResult(r)
    \/ Handler(r)

Next == Step(Main)

Spec == Init /\ [][Next]_vars

\* The interpreter runs the script to its end: no statement is left waiting.
FairSpec == Spec /\ WF_vars(Next)

PairNext == \E r \in Runs : Step(r)

PairSpec == Init /\ [][PairNext]_vars

(***************************************************************************)
(* Vocabulary of the properties.                                           *)
(***************************************************************************)
Exited(r) == pc[r] = "exited"

\* The failure of execution r: the first exception raised in it.
Failed(r) == Len(raised[r]) >= 1

Failure(r) == raised[r][1]

\* Every exception raised in r was an Exception raised in the try body.
AllCaught(r) ==
    \A i \in 1..Len(raised[r]) :
        /\ raised[r][i].at \in {"construct", "run", "print"}
        /\ raised[r][i].kind \in {"ValueError", "ImportError"}

ErrorOutput(m) ==
    << [stmt |-> "print(error)", text |-> "Error running CodeAgent: " \o m \o "\n"] >>

(***************************************************************************)
(* C1 as stated: no execution ends with a failure leaving the process      *)
(* uncaught, whatever the import, the constructor and run do.              *)
(***************************************************************************)
C1_NeverUncaught ==
    \A r \in Runs : exit[r].how \in {"running", "normal"}

(***************************************************************************)
(* C1 amended: an execution that has ended ended normally exactly when     *)
(* every failure raised in it was an Exception raised by the construction, *)
(* the run or the print of the result; a failure of the import, a failure  *)
(* that is not an Exception and a failure raised while the error line is   *)
(* printed leave the process uncaught.                                     *)
(***************************************************************************)
C1_UncaughtOnlyOutsideGuard ==
    \A r \in Runs : Exited(r) => (exit[r].how = "normal" <=> AllCaught(r))

C1_Witness ==
    \E r \in Runs :
        /\ Exited(r)
        /\ Len(raised[r]) = 1
        /\ Failure(r).at = "construct"
        /\ exit[r].how = "normal"

(***************************************************************************)
(* C2 as stated: when the construction or the run raises a failure with    *)
(* description m, standard output is exactly the error line for m.         *)
(***************************************************************************)
C2_AnyFailurePrinted ==
    \A r \in Runs :
        Exited(r) /\ Failed(r) /\ Failure(r).at \in {"construct", "run"}
            => stdout[r] = ErrorOutput(Failure(r).msg)

(***************************************************************************)
(* C2 amended: when the construction or the run raises an Exception with   *)
(* description m and the print of the error line does not itself raise,    *)
(* standard output is exactly "Error running CodeAgent: " followed by m    *)
(* and the line terminator.                                                *)
(***************************************************************************)
C2_ExceptionPrinted ==
    \A r \in Runs :
        /\ Exited(r)
        /\ Len(raised[r]) = 1
        /\ Failure(r).at \in {"construct", "run"}
        /\ Failure(r).kind \in {"ValueError", "ImportError"}
        => stdout[r] = ErrorOutput(Failure(r).msg)

C2_Witness ==
    \E r \in Runs :
        /\ Exited(r)
        /\ Len(raised[r]) = 1
        /\ Failure(r).at = "run"
        /\ Failure(r).kind = "ValueError"
        /\ Failure(r).msg # ""
        /\ Len(stdout[r]) = 1

RunReturned(r) == Len(calls[r]) = 2 /\ calls[r][2].outcome = "ok"

ResultOutput(v) == << [stmt |-> "print(result)", text |-> Str(v) \o "\n"] >>

(***************************************************************************)
(* C3 as stated: when the construction and the run both succeed and run    *)
(* returns v, standard output is str(v) (and the line terminator) and no   *)
(* error line is written.                                                  *)
(***************************************************************************)
C3_ResultAlwaysPrinted ==
    \A r \in Runs : Exited(r) /\ RunReturned(r) => stdout[r] = ResultOutput(result[r])

(***************************************************************************)
(* C3 amended: when the construction, the run and the print of the result  *)
(* all succeed, standard output is str(v) and the line terminator, with    *)
(* nothing added, and no error line is written.                            *)
(***************************************************************************)
C3_ResultPrinted ==
    \A r \in Runs :
        Exited(r) /\ RunReturned(r) /\ ~Failed(r)
            => stdout[r] = ResultOutput(result[r])

C3_Witness ==
    \E r \in Runs :
        /\ Exited(r)
        /\ RunReturned(r)
        /\ ~Failed(r)
        /\ result[r].type = "str"
        /\ result[r].text # ""

(***************************************************************************)
(* C4 as stated: every execution that has ended has made exactly one write *)
(* to standard output, the result or the error line.                       *)
(***************************************************************************)
C4_ExactlyOneWrite ==
    \A r \in Runs :
        Exited(r) =>
            /\ Len(stdout[r]) = 1
            /\ stdout[r][1].stmt \in {"print(result)", "print(error)"}

(***************************************************************************)
(* C4 amended: every execution that has ended has made at most one write   *)
(* to standard output, the result or the error line and never both; it has *)
(* made exactly one when the process ended normally and none when a        *)
(* failure left the process uncaught.                                      *)
(***************************************************************************)
C4_AtMostOneWrite ==
    \A r \in Runs :
        Exited(r) =>
            /\ Len(stdout[r]) <= 1
            /\ Len(stdout[r]) = 1 <=> exit[r].how = "normal"
            /\ \A i \in 1..Len(stdout[r]) :
                  stdout[r][i].stmt \in {"print(result)", "print(error)"}

C4_Witness ==
    \E r \in Runs :
        /\ Exited(r)
        /\ Len(stdout[r]) = 1
        /\ stdout[r][1].stmt = "print(result)"

EndedBy(r) == raised[r][Len(raised[r])]

CallsTo(r, op) == {i \in 1..Len(calls[r]) : calls[r][i].op = op}

(***************************************************************************)
(* C6: a single attempt.  In every execution the constructor is called at  *)
(* most once and run at most once, and a call that raised is the last call *)
(* made into the library.                                                  *)
(***************************************************************************)
C6_SingleAttempt ==
    \A r \in Runs :
        /\ Cardinality(CallsTo(r, "CodeAgent")) <= 1
        /\ Cardinality(CallsTo(r, "run")) <= 1
        /\ \A i \in 1..Len(calls[r]) :
              calls[r][i].outcome = "raise" => i = Len(calls[r])

C6_Witness ==
    \E r \in Runs :
        /\ Exited(r)
        /\ Len(calls[r]) = 1
        /\ calls[r][1].outcome = "raise"
        /\ Len(stdout[r]) = 1

(***************************************************************************)
(* C7: the library is used through two operations with fixed arguments.    *)
(* The first call is CodeAgent with the one keyword tools, the empty list; *)
(* the second is run with the one positional argument "What is the 15th    *)
(* prime number?"; no other call is made.                                  *)
(***************************************************************************)
C7_TwoFixedOperations ==
    \A r \in Runs :
        \A i \in 1..Len(calls[r]) :
            \/ /\ i = 1
               /\ calls[r][i].op = "CodeAgent"
               /\ calls[r][i].positional = <<>>
               /\ calls[r][i].keywords = {<<"tools", <<>>>>}
            \/ /\ i = 2
               /\ calls[r][i].op = "run"
               /\ calls[r][i].positional = <<"What is the 15th prime number?">>
               /\ calls[r][i].keywords = {}

C7_Witness ==
    \E r \in Runs :
        /\ Exited(r)
        /\ Len(calls[r]) = 2
        /\ calls[r][2].outcome = "ok"

ConstructorReturned(r) == Len(calls[r]) >= 1 /\ calls[r][1].outcome = "ok"

ConstructorFailed(r) == Len(calls[r]) >= 1 /\ calls[r][1].outcome = "raise"

(***************************************************************************)
(* C8: the order construction, run, print, exit.  run is called only after *)
(* the constructor returned; the result is printed only after run          *)
(* returned; when the construction fails run is never called, the result   *)
(* is never printed and nothing but the error line is written; the process *)
(* has exited exactly when the script has reached its end.                 *)
(***************************************************************************)
C8_Order ==
    \A r \in Runs :
        /\ CallsTo(r, "run") # {} => ConstructorReturned(r)
        /\ pc[r] = "run" => ConstructorReturned(r) /\ CallsTo(r, "run") = {}
        /\ pc[r] = "print" => RunReturned(r) /\ stdout[r] = <<>>
        /\ \A i \in 1..Len(stdout[r]) :
              stdout[r][i].stmt = "print(result)" => RunReturned(r) /\ Exited(r)
        /\ ConstructorFailed(r) =>
              /\ CallsTo(r, "run") = {}
              /\ \A i \in 1..Len(stdout[r]) : stdout[r][i].stmt = "print(error)"
        /\ Exited(r) <=> exit[r].how # "running"

C8_Witness ==
    \E r \in Runs :
        /\ Exited(r)
        /\ ConstructorFailed(r)
        /\ Len(stdout[r]) = 1
        /\ stdout[r][1].stmt = "print(error)"

Output(r) == [i \in 1..Len(stdout[r]) |-> stdout[r][i].text]

FailedInLibrary(r) ==
    Exited(r) /\ Failed(r) /\ Failure(r).at \in {"construct", "run"}

(***************************************************************************)
(* C9 as stated: two executions in which a failure with the same           *)
(* description is raised by the construction or by the run, whatever the   *)
(* class of each, have the same standard output and the same exit status.  *)
(***************************************************************************)
C9_NeverDistinguished ==
    \A r1, r2 \in Runs :
        /\ FailedInLibrary(r1)
        /\ FailedInLibrary(r2)
        /\ Failure(r1).msg = Failure(r2).msg
        => Output(r1) = Output(r2) /\ exit[r1].status = exit[r2].status

CaughtInLibrary(r) ==
    /\ FailedInLibrary(r)
    /\ Len(raised[r]) = 1
    /\ Failure(r).kind \in {"ValueError", "ImportError"}

(***************************************************************************)
(* C9 amended: two executions in which an Exception with the same          *)
(* description is raised by the construction or by the run, and in which   *)
(* the print of the error line does not itself raise, have the same        *)
(* standard output and the same exit status, whatever the class and the    *)
(* origin of each failure.                                                 *)
(***************************************************************************)
C9_ExceptionsNotDistinguished ==
    \A r1, r2 \in Runs :
        /\ CaughtInLibrary(r1)
        /\ CaughtInLibrary(r2)
        /\ Failure(r1).msg = Failure(r2).msg
        => Output(r1) = Output(r2) /\ exit[r1].status = exit[r2].status

C9_Witness ==
    \E r1, r2 \in Runs :
        /\ CaughtInLibrary(r1)
        /\ CaughtInLibrary(r2)
        /\ Failure(r1).msg = Failure(r2).msg
        /\ Failure(r1).at = "construct"
        /\ Failure(r2).at = "run"
        /\ Failure(r1).kind # Failure(r2).kind

PrintFailed(r) ==
    /\ Exited(r)
    /\ RunReturned(r)
    /\ Failed(r)
    /\ Failure(r).at = "print"
    /\ Failure(r).kind \in {"ValueError", "ImportError"}

(***************************************************************************)
(* C10 as stated: when run returns and the print of the result raises an   *)
(* Exception with description m, the error line for m is written and the   *)
(* process exits normally.                                                 *)
(***************************************************************************)
C10_PrintFailureReported ==
    \A r \in Runs :
        PrintFailed(r) =>
            stdout[r] = ErrorOutput(Failure(r).msg) /\ exit[r] = [how |-> "normal", status |-> 0]

(***************************************************************************)
(* C10 amended: when run returns and the print of the result raises an     *)
(* Exception with description m, the failure is caught; provided the print *)
(* of the error line does not itself raise, "Error running CodeAgent: "    *)
(* followed by m is written and the process exits normally.                *)
(***************************************************************************)
C10_PrintFailureCaught ==
    \A r \in Runs :
        /\ (pc[r] = "except" /\ RunReturned(r) => e[r].msg = Failure(r).msg)
        /\ (PrintFailed(r) /\ Len(raised[r]) = 1 =>
               stdout[r] = ErrorOutput(Failure(r).msg)
                   /\ exit[r] = [how |-> "normal", status |-> 0])

C10_Witness ==
    \E r \in Runs :
        /\ PrintFailed(r)
        /\ Len(raised[r]) = 1
        /\ Failure(r).msg # ""
        /\ Len(stdout[r]) = 1

====
